---- MODULE Spec2Model ----
(***************************************************************************)
(* Model of src/app.js: the Express handlers of /api/items over one        *)
(* MongoDB collection.                                                     *)
(*                                                                         *)
(* The collection `items` is a function from ObjectId to document.  An     *)
(* ObjectId is modelled by its canonical form, the 24 lower-case hex       *)
(* characters of toHexString().  Strings are sequences of one-character    *)
(* strings so that trim(), the hex test of ObjectId.isValid and the        *)
(* parsing done by `new ObjectId(id)` are computed, not assumed.           *)
(*                                                                         *)
(* Driver semantics are those of the driver generation the code is written *)
(* for (findOneAndUpdate resolving to {value: doc|null}, i.e. mongodb 4/5  *)
(* with bson 4/5, where a 12-character string is a valid id too).  Any     *)
(* storage call may also throw; a throw may happen before or after the     *)
(* server applied the operation.                                           *)
(***************************************************************************)
EXTENDS Integers, Sequences, FiniteSets, TLC

VARIABLES
  items,     \* the collection: [ObjectId -> document]
  nextId,    \* counter of the driver's ObjectId generator
  now,       \* the clock read by new Date(); each read is later than the last
  removed,   \* history: ObjectIds deleteOne has removed
  last,      \* history: the last request handled to completion, with its response
  inflight   \* requests being handled concurrently (specification ConcSpec)

vars == <<items, nextId, now, removed, last, inflight>>

(* ------------------------------ bounds -------------------------------- *)
\* how many ObjectIds the generator hands out before creates are cut off
MaxItems == 2

(* ------------------------------ strings ------------------------------- *)
HexLower == <<"0","1","2","3","4","5","6","7","8","9","a","b","c","d","e","f">>

\* the characters /[0-9a-fA-F]/ matches
HexChars == {"0","1","2","3","4","5","6","7","8","9","a","b","c","d","e","f",
             "A","B","C","D","E","F"}

IsHexChar(c) == c \in HexChars

UpperOf == [c \in {"a","b","c","d","e","f"} |->
              CASE c = "a" -> "A" [] c = "b" -> "B" [] c = "c" -> "C"
                [] c = "d" -> "D" [] c = "e" -> "E" [] c = "f" -> "F"]

LowerOf == [c \in {"A","B","C","D","E","F"} |->
              CASE c = "A" -> "a" [] c = "B" -> "b" [] c = "C" -> "c"
                [] c = "D" -> "d" [] c = "E" -> "e" [] c = "F" -> "f"]

ToUpperHex(c) == IF c \in DOMAIN UpperOf THEN UpperOf[c] ELSE c

\* a hex digit as toHexString() prints it
ToLowerHex(c) == IF c \in DOMAIN LowerOf THEN LowerOf[c] ELSE c

\* the two hex digits of the UTF-8 byte of an ASCII character
ByteHex(c) ==
  CASE c = "0" -> <<"3","0">>
    [] c = "a" -> <<"6","1">>
    [] c = "z" -> <<"7","a">>
    [] c = "-" -> <<"2","d">>

IsSpace(c) == c = " "

RECURSIVE TrimStart(_)
TrimStart(s) == IF s # <<>> /\ IsSpace(Head(s)) THEN TrimStart(Tail(s)) ELSE s

RECURSIVE TrimEnd(_)
TrimEnd(s) ==
  IF s # <<>> /\ IsSpace(s[Len(s)]) THEN TrimEnd(SubSeq(s, 1, Len(s) - 1)) ELSE s

\* String.prototype.trim
trim(s) == TrimEnd(TrimStart(s))

(* ----------------------------- JS values ------------------------------ *)
Undefined == [t |-> "undefined", s |-> <<>>, n |-> 0]
Null      == [t |-> "null",      s |-> <<>>, n |-> 0]
Num(k)    == [t |-> "number",    s |-> <<>>, n |-> k]
Str(q)    == [t |-> "string",    s |-> q,    n |-> 0]

\* the typeof operator
typeof(v) == IF v.t = "null" THEN "object" ELSE v.t

\* ToBoolean, as used by !name and by description ? ... : ...
Truthy(v) ==
  CASE v.t = "string" -> v.s # <<>>
    [] v.t = "number" -> v.n # 0
    [] OTHER -> FALSE

(* ----------------------------- ObjectId ------------------------------- *)
HexLen == 24
ByteLen == 12

\* ObjectId.isValid on a string (bson 4/5): 12 characters, or 24 hex characters
isValid(id) ==
  \/ Len(id) = ByteLen
  \/ Len(id) = HexLen /\ \A i \in 1..Len(id) : IsHexChar(id[i])

RECURSIVE BytesToHex(_)
BytesToHex(s) == IF s = <<>> THEN <<>> ELSE ByteHex(Head(s)) \o BytesToHex(Tail(s))

\* new ObjectId(id) for a string isValid accepts, in canonical (toHexString) form
ObjectId(id) ==
  IF Len(id) = ByteLen THEN BytesToHex(id)
  ELSE [i \in 1..Len(id) |-> ToLowerHex(id[i])]

\* the k-th ObjectId the driver generates in this process: a fixed
\* timestamp/process prefix followed by the incrementing counter
IdPrefix == <<"6","5","a","b">> \o [i \in 1..18 |-> "0"]
GenId(k) == IdPrefix \o <<HexLower[(k \div 16) + 1], HexLower[(k % 16) + 1]>>

\* ObjectId comparison used by sort({_id: -1}): byte-wise, i.e. lexicographic
\* on the canonical hex form
HexVal(c) == CHOOSE i \in 0..15 : HexLower[i + 1] = c
RECURSIVE IdLess(_, _)
IdLess(a, b) ==
  IF a = <<>> \/ b = <<>> THEN FALSE
  ELSE IF Head(a) # Head(b) THEN HexVal(Head(a)) < HexVal(Head(b))
  ELSE IdLess(Tail(a), Tail(b))

(* ----------------------------- documents ------------------------------ *)
\* null / undefined where a document is expected
NoItem == [_id |-> <<>>, name |-> <<>>, description |-> <<>>, createdAt |-> -1]

\* the update object built by PUT and PATCH; has* tell which keys it owns
NoUpdate == [hasName |-> FALSE, name |-> <<>>,
             hasDescription |-> FALSE, description |-> <<>>]

\* mutant: the update replaces the document's fields, absent ones becoming ""
ApplySetReplace(doc, update) ==
  [doc EXCEPT !.name = IF update.hasName THEN update.name ELSE <<>>,
              !.description = IF update.hasDescription THEN update.description
                              ELSE <<>>]

\* {$set: update} applied to one document
ApplySet(doc, update) ==
  [doc EXCEPT !.name = IF update.hasName THEN update.name ELSE @,
              !.description = IF update.hasDescription THEN update.description ELSE @]

(* -------------------------- storage operations ------------------------ *)
NoOp == [kind |-> "none", oid |-> <<>>, doc |-> NoItem, update |-> NoUpdate]

NoResult == [thrown |-> FALSE, value |-> NoItem, list |-> <<>>,
             deletedCount |-> 0, insertedId |-> <<>>]

\* the text of the error a failing storage call throws (err.message)
StorageErrorText == "MongoNetworkError: connection closed"

Thrown == [NoResult EXCEPT !.thrown = TRUE]

\* mutant: sort({_id: 1})
RECURSIVE SortAsc(_, _)
SortAsc(c, S) ==
  IF S = {} THEN <<>>
  ELSE LET m == CHOOSE x \in S : \A y \in S \ {x} : IdLess(x, y)
       IN  <<c[m]>> \o SortAsc(c, S \ {m})

\* find({}).sort({_id: -1}).toArray()
RECURSIVE SortDesc(_, _)
SortDesc(c, S) ==
  IF S = {} THEN <<>>
  ELSE LET m == CHOOSE x \in S : \A y \in S \ {x} : IdLess(y, x)
       IN  <<c[m]>> \o SortDesc(c, S \ {m})

find(c) == [c |-> c, res |-> [NoResult EXCEPT !.list = SortDesc(c, DOMAIN c)]]

findOne(c, oid) ==
  [c |-> c,
   res |-> [NoResult EXCEPT !.value = IF oid \in DOMAIN c THEN c[oid] ELSE NoItem]]

insertOne(c, doc) ==
  [c |-> (doc._id :> doc) @@ c,
   res |-> [NoResult EXCEPT !.insertedId = doc._id]]

\* mutant: the call is made with {upsert: true}
findOneAndUpdateUpsert(c, oid, update) ==
  LET after == ApplySet(IF oid \in DOMAIN c THEN c[oid]
                        ELSE [NoItem EXCEPT !._id = oid], update)
  IN  [c |-> (oid :> after) @@ c,
       res |-> [NoResult EXCEPT !.value = after]]

\* findOneAndUpdate(filter, {$set: update}, {returnDocument: "after"}), no upsert
findOneAndUpdate(c, oid, update) ==
  IF oid \in DOMAIN c
  THEN LET after == ApplySet(c[oid], update)
       IN  [c |-> [c EXCEPT ![oid] = after],
            res |-> [NoResult EXCEPT !.value = after]]
  ELSE [c |-> c, res |-> NoResult]

\* mutant: the filter is dropped, the first document in _id order goes
deleteOneAny(c, oid) ==
  IF DOMAIN c # {}
  THEN LET m == CHOOSE x \in DOMAIN c : \A y \in DOMAIN c \ {x} : IdLess(x, y)
       IN  [c |-> [x \in DOMAIN c \ {m} |-> c[x]],
            res |-> [NoResult EXCEPT !.deletedCount = 1]]
  ELSE [c |-> c, res |-> NoResult]

deleteOne(c, oid) ==
  IF oid \in DOMAIN c
  THEN [c |-> [x \in DOMAIN c \ {oid} |-> c[x]],
        res |-> [NoResult EXCEPT !.deletedCount = 1]]
  ELSE [c |-> c, res |-> NoResult]

\* the one storage call a handler awaits
Exec(op, c) ==
  CASE op.kind = "find" -> find(c)
    [] op.kind = "findOne" -> findOne(c, op.oid)
    [] op.kind = "insertOne" -> insertOne(c, op.doc)
    [] op.kind = "findOneAndUpdate" -> findOneAndUpdate(c, op.oid, op.update)
    [] op.kind = "deleteOne" -> deleteOne(c, op.oid)

(* ------------------------------ responses ----------------------------- *)
NoResp == [status |-> 0, error |-> "", message |-> "", id |-> <<>>,
           item |-> NoItem, count |-> -1, list |-> <<>>, logged |-> ""]

ErrorResp(code, text) == [NoResp EXCEPT !.status = code, !.error = text]

\* mutant: the catch block answers with err.message
CatchRespLeaky(text) ==
  [ErrorResp(500, StorageErrorText) EXCEPT !.logged = StorageErrorText]

\* catch (err) { console.error(..., err.message); res.status(500).json({error: text}) }
CatchResp(text) == [ErrorResp(500, text) EXCEPT !.logged = StorageErrorText]

Replied(resp) == [done |-> TRUE, resp |-> resp, op |-> NoOp]
Await(op) == [done |-> FALSE, resp |-> NoResp, op |-> op]

(* ------------------------------ handlers ------------------------------ *)
\* Each handler is split at its await: Stage* is the code up to the storage
\* call (a response, or the call to make), Finish* the code after it.

\* GET /api/items
StageList == Await([NoOp EXCEPT !.kind = "find"])

FinishList(res) ==
  IF res.thrown THEN CatchResp("Server error")
  ELSE [NoResp EXCEPT !.status = 200, !.count = Len(res.list), !.list = res.list]

\* GET /api/items/:id
StageGet(id) ==
  IF ~isValid(id) THEN Replied(ErrorResp(400, "Invalid id"))
  ELSE Await([NoOp EXCEPT !.kind = "findOne", !.oid = ObjectId(id)])

FinishGet(res) ==
  IF res.thrown THEN CatchResp("Server error")
  ELSE IF res.value = NoItem THEN ErrorResp(404, "Item not found")
  ELSE [NoResp EXCEPT !.status = 200, !.item = res.value]

\* mutant: the name check is only !name, so name.trim() throws on a number
\* and the catch block answers
StagePostTruthyOnly(name, description, k, t) ==
  IF ~Truthy(name)
  THEN Replied(ErrorResp(400, "name (string) is required"))
  ELSE IF typeof(name) # "string"
  THEN Replied(ErrorResp(500, "Failed to create item"))
  ELSE IF description # Undefined /\ typeof(description) # "string"
  THEN Replied(ErrorResp(400, "description must be string"))
  ELSE Await([NoOp EXCEPT
         !.kind = "insertOne",
         !.doc = [_id |-> GenId(k),
                  name |-> trim(name.s),
                  description |-> IF Truthy(description) THEN trim(description.s)
                                  ELSE <<>>,
                  createdAt |-> t]])

\* mutant: description is stored as sent, untrimmed
StagePostNoTrim(name, description, k, t) ==
  IF ~Truthy(name) \/ typeof(name) # "string"
  THEN Replied(ErrorResp(400, "name (string) is required"))
  ELSE IF description # Undefined /\ typeof(description) # "string"
  THEN Replied(ErrorResp(400, "description must be string"))
  ELSE Await([NoOp EXCEPT
         !.kind = "insertOne",
         !.doc = [_id |-> GenId(k),
                  name |-> trim(name.s),
                  description |-> IF Truthy(description) THEN description.s
                                  ELSE <<>>,
                  createdAt |-> t]])

\* POST /api/items; k and t are the ObjectId counter and the clock at the call
StagePost(name, description, k, t) ==
  IF ~Truthy(name) \/ typeof(name) # "string"
  THEN Replied(ErrorResp(400, "name (string) is required"))
  ELSE IF description # Undefined /\ typeof(description) # "string"
  THEN Replied(ErrorResp(400, "description must be string"))
  ELSE Await([NoOp EXCEPT
         !.kind = "insertOne",
         !.doc = [_id |-> GenId(k),
                  name |-> trim(name.s),
                  description |-> IF Truthy(description) THEN trim(description.s)
                                  ELSE <<>>,
                  createdAt |-> t]])

FinishPost(op, res) ==
  IF res.thrown THEN CatchResp("Failed to create item")
  ELSE [NoResp EXCEPT !.status = 201,
                      !.item = [op.doc EXCEPT !._id = res.insertedId]]

\* mutant: like POST, PUT defaults an absent description to ""
StagePutDefaults(id, name, description) ==
  IF ~isValid(id) THEN Replied(ErrorResp(400, "Invalid id"))
  ELSE IF name # Undefined /\ typeof(name) # "string"
  THEN Replied(ErrorResp(400, "name must be string"))
  ELSE IF description # Undefined /\ typeof(description) # "string"
  THEN Replied(ErrorResp(400, "description must be string"))
  ELSE Await([NoOp EXCEPT
         !.kind = "findOneAndUpdate",
         !.oid = ObjectId(id),
         !.update = [hasName |-> name # Undefined,
                     name |-> IF name # Undefined THEN trim(name.s) ELSE <<>>,
                     hasDescription |-> TRUE,
                     description |-> IF description # Undefined
                                     THEN trim(description.s) ELSE <<>>]])

\* PUT /api/items/:id
StagePut(id, name, description) ==
  IF ~isValid(id) THEN Replied(ErrorResp(400, "Invalid id"))
  ELSE IF name # Undefined /\ typeof(name) # "string"
  THEN Replied(ErrorResp(400, "name must be string"))
  ELSE IF description # Undefined /\ typeof(description) # "string"
  THEN Replied(ErrorResp(400, "description must be string"))
  ELSE Await([NoOp EXCEPT
         !.kind = "findOneAndUpdate",
         !.oid = ObjectId(id),
         !.update = [hasName |-> name # Undefined,
                     name |-> IF name # Undefined THEN trim(name.s) ELSE <<>>,
                     hasDescription |-> description # Undefined,
                     description |-> IF description # Undefined
                                     THEN trim(description.s) ELSE <<>>]])

FinishPut(res) ==
  IF res.thrown THEN CatchResp("Server error")
  ELSE IF res.value = NoItem THEN ErrorResp(404, "Item not found")
  ELSE [NoResp EXCEPT !.status = 200, !.item = res.value]

\* mutant: the body is validated before the id
StagePatchBodyFirst(id, name, description) ==
  IF name # Undefined /\ typeof(name) # "string"
  THEN Replied(ErrorResp(400, "name must be string"))
  ELSE IF description # Undefined /\ typeof(description) # "string"
  THEN Replied(ErrorResp(400, "description must be string"))
  ELSE IF ~isValid(id) THEN Replied(ErrorResp(400, "Invalid id"))
  ELSE Await([NoOp EXCEPT
         !.kind = "findOneAndUpdate",
         !.oid = ObjectId(id),
         !.update = [hasName |-> name # Undefined,
                     name |-> IF name # Undefined THEN trim(name.s) ELSE <<>>,
                     hasDescription |-> description # Undefined,
                     description |-> IF description # Undefined
                                     THEN trim(description.s) ELSE <<>>]])

\* PATCH /api/items/:id
StagePatch(id, name, description) ==
  IF ~isValid(id) THEN Replied(ErrorResp(400, "Invalid id"))
  ELSE IF name # Undefined /\ typeof(name) # "string"
  THEN Replied(ErrorResp(400, "name must be string"))
  ELSE IF description # Undefined /\ typeof(description) # "string"
  THEN Replied(ErrorResp(400, "description must be string"))
  ELSE Await([NoOp EXCEPT
         !.kind = "findOneAndUpdate",
         !.oid = ObjectId(id),
         !.update = [hasName |-> name # Undefined,
                     name |-> IF name # Undefined THEN trim(name.s) ELSE <<>>,
                     hasDescription |-> description # Undefined,
                     description |-> IF description # Undefined
                                     THEN trim(description.s) ELSE <<>>]])

FinishPatch(res) ==
  IF res.thrown THEN CatchResp("Server error")
  ELSE IF res.value = NoItem THEN ErrorResp(404, "Item not found")
  ELSE [NoResp EXCEPT !.status = 200, !.item = res.value]

\* DELETE /api/items/:id
StageDelete(id) ==
  IF ~isValid(id) THEN Replied(ErrorResp(400, "Invalid id"))
  ELSE Await([NoOp EXCEPT !.kind = "deleteOne", !.oid = ObjectId(id)])

FinishDelete(id, res) ==
  IF res.thrown THEN CatchResp("Server error")
  ELSE IF res.deletedCount = 0 THEN ErrorResp(404, "Item not found")
  ELSE [NoResp EXCEPT !.status = 200, !.message = "Deleted", !.id = id]

\* the router: which handler a request reaches
Stage(req, k, t) ==
  CASE req.method = "LIST" -> StageList
    [] req.method = "GET" -> StageGet(req.id)
    [] req.method = "POST" -> StagePost(req.name, req.description, k, t)
    [] req.method = "PUT" -> StagePut(req.id, req.name, req.description)
    [] req.method = "PATCH" -> StagePatch(req.id, req.name, req.description)
    [] req.method = "DELETE" -> StageDelete(req.id)

Finish(req, op, res) ==
  CASE req.method = "LIST" -> FinishList(res)
    [] req.method = "GET" -> FinishGet(res)
    [] req.method = "POST" -> FinishPost(op, res)
    [] req.method = "PUT" -> FinishPut(res)
    [] req.method = "PATCH" -> FinishPatch(res)
    [] req.method = "DELETE" -> FinishDelete(req.id, res)

(* ------------------------------- inputs ------------------------------- *)
Request(m, id, name, description) ==
  [method |-> m, id |-> id, name |-> name, description |-> description]

NoRequest == Request("none", <<>>, Undefined, Undefined)

\* JSON bodies sent to POST, as <<name, description>>
CreateBodies ==
  {<<Str(<<" ", "a", " ">>), Str(<<" ", "c">>)>>,
   <<Str(<<" ", "a", " ">>), Undefined>>,
   <<Str(<<" ", "a", " ">>), Str(<<>>)>>,
   <<Str(<<" ", " ">>), Undefined>>,
   <<Str(<<>>), Str(<<" ", "c">>)>>,
   <<Undefined, Str(<<" ", "c">>)>>,
   <<Null, Undefined>>,
   <<Num(7), Undefined>>,
   <<Str(<<" ", "a", " ">>), Num(7)>>,
   <<Str(<<" ", "a", " ">>), Null>>}

\* JSON bodies sent to PUT and PATCH, as <<name, description>>
UpdateBodies ==
  {<<Undefined, Undefined>>,
   <<Str(<<"a", " ">>), Undefined>>,
   <<Str(<<" ">>), Undefined>>,
   <<Undefined, Str(<<" ", "c">>)>>,
   <<Undefined, Str(<<>>)>>,
   <<Str(<<" ", "a">>), Str(<<"c", " ">>)>>,
   <<Num(7), Undefined>>,
   <<Undefined, Null>>}

\* the id of the first generated document, as a client may write it
UpperId == [i \in 1..HexLen |-> ToUpperHex(GenId(1)[i])]
\* 12 characters: an id under bson 4/5, matching no generated document
TwelveId == [i \in 1..ByteLen |-> "z"]
\* malformed: too short, and 24 characters of which one is no hex digit
ShortId == <<"a", "b", "c">>
NonHexId == [GenId(1) EXCEPT ![HexLen] = "g"]

PathIds == {GenId(1), GenId(2), UpperId, TwelveId, ShortId, NonHexId}

\* <<id, name, description>> sent to PUT and PATCH: every body for the two ids
\* that can be stored, a valid and an invalid body for the others
UpdateInputs ==
  {<<id, b[1], b[2]>> : id \in {GenId(1), GenId(2)}, b \in UpdateBodies}
    \cup {<<id, b[1], b[2]>> :
            id \in {UpperId, TwelveId, ShortId, NonHexId},
            b \in {<<Str(<<" ", "a">>), Str(<<"c", " ">>)>>, <<Num(7), Undefined>>}}

\* how a storage call can end: normally, or throwing before / after the
\* server applied it
FailModes == {"none", "before", "after"}

(* ------------------------ one request at a time ----------------------- *)
\* what the last request was aimed at, judged when it arrived; st is the
\* handler's state at its await
Target(req, st, c, rem) ==
  IF req.method \in {"LIST", "POST"} THEN "none"
  ELSE IF st.done /\ st.resp.error = "Invalid id" THEN "invalid"
  ELSE LET oid == ObjectId(req.id) IN
       IF oid \in DOMAIN c THEN "stored"
       ELSE IF oid \in rem THEN "removed"
       ELSE "missing"

NoLast == [method |-> "none", target |-> "none", status |-> 0, calls |-> 0]

\* a handler that reached st on collection c: at most the one storage call
\* (ending as `fail` says), then the response
Complete(req, st, c, fail) ==
  IF st.done
  THEN [items |-> c, resp |-> st.resp, calls |-> 0]
  ELSE LET ex == Exec(st.op, c) IN
       [items |-> IF fail = "before" THEN c ELSE ex.c,
        resp |-> Finish(req, st.op, IF fail = "none" THEN ex.res ELSE Thrown),
        calls |-> 1]

\* a whole handler run on collection c with ObjectId counter k and clock t
Outcome(req, c, k, t, fail) == Complete(req, Stage(req, k, t), c, fail)

\* one request handled from arrival to response
Handle(req) ==
  \E st \in {Stage(req, nextId, now)} :
    \E fail \in (IF st.done THEN {"none"} ELSE FailModes) :
      \E o \in {Complete(req, st, items, fail)} :
        /\ (req.method = "POST" /\ o.calls > 0) => nextId <= MaxItems
        /\ items' = o.items
        /\ removed' = removed \cup (DOMAIN items \ DOMAIN o.items)
        /\ last' = [method |-> req.method,
                    target |-> Target(req, st, items, removed),
                    status |-> o.resp.status, calls |-> o.calls]
        /\ IF req.method = "POST" /\ o.calls > 0
           THEN nextId' = nextId + 1 /\ now' = now + 1
           ELSE UNCHANGED <<nextId, now>>

GetItems ==
  /\ UNCHANGED inflight
  /\ Handle(Request("LIST", <<>>, Undefined, Undefined))

GetItemById ==
  /\ UNCHANGED inflight
  /\ \E id \in PathIds : Handle(Request("GET", id, Undefined, Undefined))

PostItem ==
  /\ UNCHANGED inflight
  /\ \E b \in CreateBodies : Handle(Request("POST", <<>>, b[1], b[2]))

PutItem ==
  /\ UNCHANGED inflight
  /\ \E u \in UpdateInputs : Handle(Request("PUT", u[1], u[2], u[3]))

PatchItem ==
  /\ UNCHANGED inflight
  /\ \E u \in UpdateInputs : Handle(Request("PATCH", u[1], u[2], u[3]))

DeleteItem ==
  /\ UNCHANGED inflight
  /\ \E id \in PathIds : Handle(Request("DELETE", id, Undefined, Undefined))

(* ------------------------- concurrent requests ------------------------ *)
Slots == {1, 2}

\* overlapped: history, whether another request was in flight with this one
IdleSlot == [pc |-> "idle", req |-> NoRequest, op |-> NoOp, res |-> NoResult,
             resp |-> NoResp, calls |-> 0, overlapped |-> FALSE]

InFlight(slot) == slot.pc \in {"staged", "returned"}

ConcRequests ==
  {Request("POST", <<>>, Str(<<" ", "a", " ">>), Undefined),
   Request("GET", GenId(1), Undefined, Undefined),
   Request("DELETE", GenId(1), Undefined, Undefined)}
  \cup {Request(m, GenId(1), b[1], b[2]) :
          m \in {"PUT", "PATCH"},
          b \in {<<Str(<<"b">>), Undefined>>,
                 <<Undefined, Str(<<" ", "c">>)>>,
                 <<Undefined, Undefined>>}}

\* a request arrives and its handler runs up to the await
Receive ==
  \E s \in Slots, req \in ConcRequests :
    LET st == Stage(req, nextId, now) IN
    /\ inflight[s].pc = "idle"
    /\ st.done \/ req.method # "POST" \/ nextId <= MaxItems
    /\ inflight' = [x \in Slots |->
         IF x = s
         THEN [IdleSlot EXCEPT
                 !.pc = IF st.done THEN "done" ELSE "staged",
                 !.req = req, !.op = st.op, !.resp = st.resp,
                 !.overlapped = ~st.done /\ \E y \in Slots \ {s} : InFlight(inflight[y])]
         ELSE IF ~st.done /\ InFlight(inflight[x])
         THEN [inflight[x] EXCEPT !.overlapped = TRUE]
         ELSE inflight[x]]
    /\ IF ~st.done /\ req.method = "POST"
       THEN nextId' = nextId + 1 /\ now' = now + 1
       ELSE UNCHANGED <<nextId, now>>
    /\ UNCHANGED <<items, removed, last>>

\* the storage layer serves one awaited call, atomically
StorageStep ==
  \E s \in Slots, fail \in FailModes :
    LET ex  == Exec(inflight[s].op, items)
        res == IF fail = "none" THEN ex.res ELSE Thrown
        c2  == IF fail = "before" THEN items ELSE ex.c
    IN  /\ inflight[s].pc = "staged"
        /\ items' = c2
        /\ removed' = removed \cup (DOMAIN items \ DOMAIN c2)
        /\ inflight' = [inflight EXCEPT ![s].pc = "returned", ![s].res = res,
                                        ![s].calls = @ + 1]
        /\ UNCHANGED <<nextId, now, last>>

\* the handler resumes after the await and responds
Reply ==
  \E s \in Slots :
    /\ inflight[s].pc = "returned"
    /\ inflight' = [inflight EXCEPT
         ![s].pc = "done",
         ![s].resp = Finish(inflight[s].req, inflight[s].op, inflight[s].res)]
    /\ UNCHANGED <<items, nextId, now, removed, last>>

\* every request in flight has been answered; the clients go on
Drain ==
  /\ \E s \in Slots : inflight[s].pc = "done"
  /\ \A s \in Slots : inflight[s].pc \in {"idle", "done"}
  /\ inflight' = [s \in Slots |-> IdleSlot]
  /\ UNCHANGED <<items, nextId, now, removed, last>>

(* --------------------------- specifications --------------------------- *)
Init ==
  /\ items = <<>>
  /\ nextId = 1
  /\ now = 0
  /\ removed = {}
  /\ last = NoLast
  /\ inflight = <<>>

Next == GetItems \/ GetItemById \/ PostItem \/ PutItem \/ PatchItem \/ DeleteItem

Spec == Init /\ [][Next]_vars

ConcInit ==
  /\ items = <<>>
  /\ nextId = 1
  /\ now = 0
  /\ removed = {}
  /\ last = NoLast
  /\ inflight = [s \in Slots |-> IdleSlot]

ConcNext == Receive \/ StorageStep \/ Reply \/ Drain

ConcSpec == ConcInit /\ [][ConcNext]_vars

(* ============================== claims ================================ *)
\* the inputs the sequential actions draw from, as requests
ByIdRequests ==
  {Request(m, id, Undefined, Undefined) : m \in {"GET", "DELETE"}, id \in PathIds}
    \cup {Request(m, u[1], u[2], u[3]) : m \in {"PUT", "PATCH"}, u \in UpdateInputs}

AllRequests ==
  ByIdRequests
    \cup {Request("LIST", <<>>, Undefined, Undefined)}
    \cup {Request("POST", <<>>, b[1], b[2]) : b \in CreateBodies}

\* the handler run on the current state, its storage call succeeding
Run(req) == Outcome(req, items, nextId, now, "none")

\* the path ids above that are no identifier: 3 characters, and 24 characters
\* with a "g" among them
MalformedIds == {ShortId, NonHexId}
WellFormedIds == PathIds \ MalformedIds

IsUpdate(req) == req.method \in {"PUT", "PATCH"}

\* an update body whose supplied fields are strings (any body for GET/DELETE)
BodyOk(req) ==
  /\ req.name.t \in {"undefined", "string"}
  /\ req.description.t \in {"undefined", "string"}

\* t is s without its leading and trailing blanks
IsTrimOf(t, s) ==
  \E i \in 0..Len(s), j \in 0..Len(s) :
    /\ i + j <= Len(s)
    /\ t = SubSeq(s, i + 1, Len(s) - j)
    /\ \A k \in 1..i : s[k] = " "
    /\ \A k \in (Len(s) - j + 1)..Len(s) : s[k] = " "
    /\ t # <<>> => (t[1] # " " /\ t[Len(t)] # " ")

\* C1: GET, PUT, PATCH and DELETE of /api/items/:id with a malformed id answer
\* 400 {error: "Invalid id"} whatever the body is, issue no storage call and
\* leave the collection as it was.
C1_InvalidIdRejected ==
  \A req \in ByIdRequests :
    req.id \in MalformedIds =>
      \A fail \in FailModes :
        LET o == Outcome(req, items, nextId, now, fail) IN
        /\ o.resp = ErrorResp(400, "Invalid id")
        /\ o.calls = 0
        /\ o.items = items

C1_Witness ==
  /\ last.method = "PATCH" /\ last.target = "invalid"
  /\ last.status = 400 /\ last.calls = 0
  /\ items # <<>>

\* C2: a POST whose name is missing or no string, or whose description is
\* present and no string, answers 400 and inserts nothing.
C2_CreateRejected ==
  \A b \in CreateBodies :
    (b[1].t # "string" \/ b[2].t \notin {"undefined", "string"}) =>
      \A fail \in FailModes :
        LET o == Outcome(Request("POST", <<>>, b[1], b[2]), items, nextId, now, fail) IN
        /\ o.resp.status = 400
        /\ o.resp.item = NoItem
        /\ o.calls = 0
        /\ o.items = items

C2_Witness ==
  /\ last.method = "POST" /\ last.status = 400 /\ last.calls = 0
  /\ items # <<>>

\* C3: the document a successful create has just inserted has a non-empty name.
C3_CreatedNameNonEmpty ==
  (last.method = "POST" /\ last.status = 201) =>
    /\ GenId(nextId - 1) \in DOMAIN items
    /\ items[GenId(nextId - 1)].name # <<>>

\* the bodies POST accepts: a non-empty string name, a string or no description
ValidCreateBodies ==
  {b \in CreateBodies :
     b[1].t = "string" /\ b[1].s # <<>> /\ b[2].t \in {"undefined", "string"}}

\* C4: a valid create answers 201 with the trimmed name and description (""
\* when absent), and a get-by-id of the returned id issued next answers 200
\* with the same item.
C4_CreateThenGet ==
  \A b \in ValidCreateBodies :
    LET o   == Run(Request("POST", <<>>, b[1], b[2]))
        it  == o.resp.item
        g   == Outcome(Request("GET", it._id, Undefined, Undefined),
                       o.items, nextId + 1, now + 1, "none")
    IN  /\ o.resp.status = 201
        /\ IsTrimOf(it.name, b[1].s)
        /\ IF b[2] = Undefined THEN it.description = <<>>
           ELSE IsTrimOf(it.description, b[2].s)
        /\ it._id \notin DOMAIN items
        /\ g.resp.status = 200
        /\ g.resp.item = it
        /\ g.items = o.items

C4_Witness ==
  /\ last.method = "GET" /\ last.target = "stored" /\ last.status = 200
  /\ nextId > 1 /\ GenId(nextId - 1) \in DOMAIN items

\* C5: GET, PUT, PATCH (with a valid body) and DELETE of a well-formed id that
\* matches no stored document answer 404 and leave the collection as it was;
\* an update creates nothing.
C5_NotFound ==
  \A req \in ByIdRequests :
    (req.id \in WellFormedIds /\ ObjectId(req.id) \notin DOMAIN items /\ BodyOk(req)) =>
      LET o == Run(req) IN
      /\ o.resp = ErrorResp(404, "Item not found")
      /\ o.calls = 1
      /\ o.items = items

C5_Witness ==
  /\ last.method = "PUT" /\ last.target = "missing" /\ last.status = 404
  /\ items # <<>>

\* C6: a successful PUT or PATCH of a stored item sets exactly the supplied
\* fields to their trimmed values: an absent name or description keeps its
\* value, a body with neither answers 200 with the document as it was, and
\* _id, createdAt and every other document stay as they were.
C6_UpdateFrame ==
  \A req \in ByIdRequests :
    (IsUpdate(req) /\ req.id \in WellFormedIds /\ ObjectId(req.id) \in DOMAIN items
       /\ BodyOk(req)) =>
      LET o   == Run(req)
          oid == ObjectId(req.id)
          old == items[oid]
          new == o.items[oid]
      IN  /\ o.resp.status = 200
          /\ DOMAIN o.items = DOMAIN items
          /\ o.resp.item = new
          /\ IF req.name = Undefined THEN new.name = old.name
             ELSE IsTrimOf(new.name, req.name.s)
          /\ IF req.description = Undefined THEN new.description = old.description
             ELSE IsTrimOf(new.description, req.description.s)
          /\ new._id = old._id /\ new.createdAt = old.createdAt
          /\ \A x \in DOMAIN items \ {oid} : o.items[x] = items[x]
          /\ (req.name = Undefined /\ req.description = Undefined) =>
               (o.items = items /\ o.resp.item = old)

C6_Witness ==
  /\ last.method = "PATCH" /\ last.target = "stored" /\ last.status = 200
  /\ Cardinality(DOMAIN items) >= 2

\* C7: DELETE of a stored item answers 200 {message: "Deleted", id} and removes
\* that document and no other; from then on GET, PUT, PATCH and DELETE of the
\* id answer 404 (a second DELETE in a row: 200 then 404), and a removed
\* document never comes back.
C7_DeleteThenNotFound ==
  /\ removed \cap DOMAIN items = {}
  /\ \A req \in ByIdRequests :
       (req.id \in WellFormedIds /\ ObjectId(req.id) \in removed /\ BodyOk(req)) =>
         LET o == Run(req) IN o.resp.status = 404 /\ o.items = items
  /\ \A req \in ByIdRequests :
       (req.method = "DELETE" /\ req.id \in WellFormedIds
          /\ ObjectId(req.id) \in DOMAIN items) =>
         LET o   == Run(req)
             oid == ObjectId(req.id)
         IN  /\ o.resp = [NoResp EXCEPT !.status = 200, !.message = "Deleted",
                                         !.id = req.id]
             /\ DOMAIN o.items = DOMAIN items \ {oid}
             /\ \A x \in DOMAIN o.items : o.items[x] = items[x]
             /\ \A r2 \in ByIdRequests :
                  (r2.id \in WellFormedIds /\ ObjectId(r2.id) = oid /\ BodyOk(r2)) =>
                    LET o2 == Outcome(r2, o.items, nextId, now, "none") IN
                    o2.resp.status = 404 /\ o2.items = o.items

C7_Witness ==
  /\ last.method = "DELETE" /\ last.target = "removed" /\ last.status = 404
  /\ items # <<>>

\* C8: List answers 200 with every stored document exactly once, the more
\* recently created first, and count equal to the length of items.
C8_ListNewestFirst ==
  LET o == Run(Request("LIST", <<>>, Undefined, Undefined))
      l == o.resp.list
  IN  /\ o.resp.status = 200
      /\ o.resp.count = Len(l)
      /\ Len(l) = Cardinality(DOMAIN items)
      /\ {l[i] : i \in 1..Len(l)} = {items[x] : x \in DOMAIN items}
      /\ \A i, j \in 1..Len(l) :
           i < j =>
             /\ \E a, b \in 1..(nextId - 1) :
                  a > b /\ l[i]._id = GenId(a) /\ l[j]._id = GenId(b)
             /\ l[i].createdAt >= l[j].createdAt
      /\ o.items = items

C8_Witness ==
  /\ last.method = "LIST" /\ last.status = 200
  /\ Cardinality(DOMAIN items) >= 2
  /\ \E x \in DOMAIN items : items[x].name = <<>>

\* the error messages of the catch blocks
GenericErrors == {"Server error", "Failed to create item"}

\* C9: no handler issues more than one storage call; when that call throws the
\* response is 500 with only a fixed generic error message, the error's text
\* going to the log and not into the response.
C9_StorageFailure ==
  /\ last.calls <= 1
  /\ \A req \in AllRequests, fail \in FailModes :
       LET o == Outcome(req, items, nextId, now, fail) IN
       /\ o.calls <= 1
       /\ (o.calls = 1 /\ fail # "none") =>
            /\ o.resp.status = 500
            /\ o.resp.error \in GenericErrors
            /\ o.resp.error # StorageErrorText
            /\ o.resp = [NoResp EXCEPT !.status = 500, !.error = o.resp.error,
                                        !.logged = StorageErrorText]
       /\ (o.calls = 1 /\ fail = "none") => o.resp.status \in {200, 201, 404}

C9_Witness ==
  /\ last.method = "PUT" /\ last.target = "stored"
  /\ last.status = 500 /\ last.calls = 1

\* a request answered after a storage call that did not throw
Served(slot) == slot.pc = "done" /\ slot.calls = 1 /\ ~slot.res.thrown

\* C10: two concurrent updates of one stored item, one supplying only name and
\* the other only description, both answer 200 and leave the item with the new
\* name and the new description, in whatever order the storage layer serves
\* them; an update concurrent with a delete answers 200 with the updated item
\* or 404, and once a delete has answered 200 the document is not stored.
C10_NoLostUpdate ==
  /\ \A s1, s2 \in Slots :
       LET a == inflight[s1]
           b == inflight[s2]
       IN  (/\ s1 # s2 /\ Served(a) /\ Served(b)
            /\ IsUpdate(a.req) /\ IsUpdate(b.req)
            /\ a.op.oid = b.op.oid /\ a.op.oid \in DOMAIN items
            /\ a.op.update.hasName /\ ~a.op.update.hasDescription
            /\ b.op.update.hasDescription /\ ~b.op.update.hasName) =>
             /\ a.resp.status = 200 /\ b.resp.status = 200
             /\ IsTrimOf(items[a.op.oid].name, a.req.name.s)
             /\ IsTrimOf(items[a.op.oid].description, b.req.description.s)
  /\ \A s \in Slots :
       LET a == inflight[s] IN
       /\ (Served(a) /\ IsUpdate(a.req)) =>
            \/ a.resp = ErrorResp(404, "Item not found")
            \/ /\ a.resp.status = 200
               /\ a.resp.item._id = a.op.oid
               /\ a.op.update.hasName => a.resp.item.name = a.op.update.name
               /\ a.op.update.hasDescription =>
                    a.resp.item.description = a.op.update.description
       /\ (a.pc = "done" /\ a.req.method = "DELETE" /\ a.resp.status = 200) =>
            a.op.oid \notin DOMAIN items
       /\ a.calls <= 1

C10_Witness ==
  \E s1, s2 \in Slots :
    LET a == inflight[s1]
        b == inflight[s2]
    IN  /\ s1 # s2 /\ Served(a) /\ Served(b)
        /\ a.overlapped /\ b.overlapped
        /\ IsUpdate(a.req) /\ IsUpdate(b.req)
        /\ a.op.update.hasName /\ ~a.op.update.hasDescription
        /\ b.op.update.hasDescription /\ ~b.op.update.hasName
        /\ a.resp.status = 200 /\ b.resp.status = 200
        /\ a.resp.item.description # b.resp.item.description

====
